---- MODULE Spec2Model ----
(***************************************************************************)
(* A model of the p0f query client (src/src/lib.rs): the request encoder,  *)
(* the byte cursor BufferReader, the response decoder inlined in           *)
(* P0f::query, and the write/read exchange with the daemon over one        *)
(* connection.                                                             *)
(*                                                                         *)
(* Bytes are naturals 0..255.  TLC integers are 32-bit signed, so a u32,   *)
(* u64 or i64 value is kept as the sequence of its base-256 digits, least  *)
(* significant first (4 digits for u32, 8 for u64 and for i64 in two's     *)
(* complement); arithmetic is done on the digits with the width of the     *)
(* Rust type.  Option<T> is a sequence: <<>> is None, <<x>> is Some(x).    *)
(***************************************************************************)
EXTENDS Integers, Sequences, FiniteSets, TLC

VARIABLES
    endian,     \* byte order of the host ("le" or "be"): to_ne_bytes / from_ne_bytes
    pc,         \* where the caller is: "idle" (no call in progress) or "reading"
    calls,      \* number of query calls started on the connection
    sent,       \* bytes written by the client that the daemon has not read yet
    sock,       \* bytes written by the daemon that the client has not read yet
    closed,     \* the daemon has closed its end of the connection
    request,    \* the request Vec of the last call
    response,   \* the response array of the last call that read one
    result,     \* the value the last call returned (or its panic)
    io,         \* the I/O operations issued on the socket so far, in order
    replies,    \* number of response blocks the daemon has written
    lastReply,  \* the response block the daemon wrote in answer to the last call
    address,    \* the address argument of the call in progress
    reader,     \* a BufferReader: [buffer, pos]
    ret         \* what the last BufferReader call returned

vars == <<endian, pc, calls, sent, sock, closed, request, response, result, io,
          replies, lastReply, address, reader, ret>>

connVars == <<pc, calls, sent, sock, closed, io, replies, lastReply>>

(***************************************************************************)
(* Bounds of the model.                                                    *)
(***************************************************************************)
MaxCalls == 2       \* query calls on one connection
MaxBufLen == 5      \* longest buffer given to a free-standing BufferReader

(***************************************************************************)
(* Constants of the program.                                               *)
(***************************************************************************)
REQUEST_MAGIC == 1345340929     \* 0x50304601
RESPONSE_MAGIC == 1345340930    \* 0x50304602

REQUEST_SIZE == 21
RESPONSE_SIZE == 232

STR_MAX == 31
STR_SIZE == STR_MAX + 1

STATUS_BADQUERY == 0
STATUS_OK == 16
STATUS_NOMATCH == 32

ADDRESS_IPV4 == 4
ADDRESS_IPV6 == 6

MATCH_NORMAL == 0
MATCH_FUZZY == 1
MATCH_GENERIC == 2
MATCH_FUZZY_GENERIC == 3

(***************************************************************************)
(* Sequences and digit arithmetic.                                         *)
(***************************************************************************)
Reverse(s) == [i \in 1..Len(s) |-> s[Len(s) + 1 - i]]

Zeros(n) == [i \in 1..n |-> 0]

Fill(n, b) == [i \in 1..n |-> b]

\* The w base-256 digits of the natural n (n < 2^31), least significant first.
RECURSIVE Digits(_, _)
Digits(n, w) == IF w = 0 THEN <<>> ELSE <<n % 256>> \o Digits(n \div 256, w - 1)

IsZero(d) == \A i \in 1..Len(d) : d[i] = 0

\* The digits of d * k (k < 2^22) truncated to w digits, i.e. modulo 2^(8w):
\* schoolbook multiplication with a carry.
RECURSIVE MulCarry(_, _, _, _, _)
MulCarry(d, k, w, i, carry) ==
    IF i > w THEN <<>>
    ELSE LET t == (IF i <= Len(d) THEN d[i] * k ELSE 0) + carry
         IN  <<t % 256>> \o MulCarry(d, k, w, i + 1, t \div 256)

MulSmall(d, k, w) == MulCarry(d, k, w, 1, 0)

\* a <= b for two's complement numbers of the same width (digits, least
\* significant first): compare the sign, then the digits from the top.
RECURSIVE LeqFrom(_, _, _)
LeqFrom(a, b, i) ==
    IF i = 0 THEN TRUE
    ELSE IF a[i] # b[i] THEN a[i] < b[i]
    ELSE LeqFrom(a, b, i - 1)

IsNegative(a) == a[Len(a)] >= 128

SignedLeq(a, b) ==
    IF IsNegative(a) # IsNegative(b) THEN IsNegative(a)
    ELSE LeqFrom(a, b, Len(a))

(***************************************************************************)
(* Native byte order: u32::to_ne_bytes, u32::from_ne_bytes and friends.    *)
(* A value is its digits, least significant first; the bytes in memory are *)
(* the digits in that order on a little-endian host and reversed on a      *)
(* big-endian one.                                                         *)
(***************************************************************************)
to_ne_bytes(d, e) == IF e = "le" THEN d ELSE Reverse(d)

from_ne_bytes(b, e) == IF e = "le" THEN b ELSE Reverse(b)

\* i16::from_ne_bytes: the two's complement value of two bytes.
i16_from_ne_bytes(b, e) ==
    LET d == from_ne_bytes(b, e)
        u == d[1] + 256 * d[2]
    IN  IF u >= 32768 THEN u - 65536 ELSE u

(***************************************************************************)
(* BufferReader (lib.rs 326-350).                                          *)
(***************************************************************************)
BufferReader_new(buffer) == [buffer |-> buffer, pos |-> 0]

\* read_array::<N>: Some(slice) and the advanced cursor, or None and the cursor
\* as it was.
read_array_lt(r, N) ==
    IF r.pos + N < Len(r.buffer)
    THEN [val |-> <<SubSeq(r.buffer, r.pos + 1, r.pos + N)>>,
          rd  |-> [r EXCEPT !.pos = r.pos + N]]
    ELSE [val |-> <<>>, rd |-> r]

read_array(r, N) ==
    IF r.pos + N <= Len(r.buffer)
    THEN [val |-> <<SubSeq(r.buffer, r.pos + 1, r.pos + N)>>,
          rd  |-> [r EXCEPT !.pos = r.pos + N]]
    ELSE [val |-> <<>>, rd |-> r]

\* get_buffer: &buffer[pos..]; slicing panics when pos > len.
get_buffer(r) ==
    IF r.pos <= Len(r.buffer)
    THEN [panic |-> FALSE, val |-> SubSeq(r.buffer, r.pos + 1, Len(r.buffer))]
    ELSE [panic |-> TRUE, val |-> <<>>]

(***************************************************************************)
(* String::from_utf8_lossy and str::trim_end_matches('\0').  A String is   *)
(* the sequence of its code points.  The decoder follows core's Utf8Chunks:*)
(* a maximal ill-formed prefix becomes one U+FFFD (65533).                 *)
(***************************************************************************)
REPLACEMENT_CHARACTER == 65533

\* safe_get: the byte at 1-based index i, or 0 past the end.
safe_get(b, i) == IF i <= Len(b) THEN b[i] ELSE 0

IsCont(c) == c >= 128 /\ c <= 191

utf8_char_width(byte) ==
    IF byte < 128 THEN 1
    ELSE IF byte >= 194 /\ byte <= 223 THEN 2
    ELSE IF byte >= 224 /\ byte <= 239 THEN 3
    ELSE IF byte >= 240 /\ byte <= 244 THEN 4
    ELSE 0

\* The second byte of a 3-byte and of a 4-byte sequence is range-checked
\* against the lead byte (no overlong forms, no surrogates, <= U+10FFFF).
Second3Ok(byte, c) ==
    \/ byte = 224 /\ c >= 160 /\ c <= 191
    \/ byte >= 225 /\ byte <= 236 /\ IsCont(c)
    \/ byte = 237 /\ c >= 128 /\ c <= 159
    \/ byte >= 238 /\ byte <= 239 /\ IsCont(c)

Second4Ok(byte, c) ==
    \/ byte = 240 /\ c >= 144 /\ c <= 191
    \/ byte >= 241 /\ byte <= 243 /\ IsCont(c)
    \/ byte = 244 /\ c >= 128 /\ c <= 143

RECURSIVE LossyFrom(_, _)
LossyFrom(b, i) ==
    IF i > Len(b) THEN <<>>
    ELSE LET byte == b[i]
             w == utf8_char_width(byte)
             c1 == safe_get(b, i + 1)
             c2 == safe_get(b, i + 2)
             c3 == safe_get(b, i + 3)
             bad(n) == <<REPLACEMENT_CHARACTER>> \o LossyFrom(b, i + n)
         IN  IF w = 1 THEN <<byte>> \o LossyFrom(b, i + 1)
             ELSE IF w = 2 THEN
                 IF ~IsCont(c1) THEN bad(1)
                 ELSE <<(byte - 192) * 64 + (c1 - 128)>> \o LossyFrom(b, i + 2)
             ELSE IF w = 3 THEN
                 IF ~Second3Ok(byte, c1) THEN bad(1)
                 ELSE IF ~IsCont(c2) THEN bad(2)
                 ELSE <<(byte - 224) * 4096 + (c1 - 128) * 64 + (c2 - 128)>>
                      \o LossyFrom(b, i + 3)
             ELSE IF w = 4 THEN
                 IF ~Second4Ok(byte, c1) THEN bad(1)
                 ELSE IF ~IsCont(c2) THEN bad(2)
                 ELSE IF ~IsCont(c3) THEN bad(3)
                 ELSE <<(byte - 240) * 262144 + (c1 - 128) * 4096
                        + (c2 - 128) * 64 + (c3 - 128)>>
                      \o LossyFrom(b, i + 4)
             ELSE bad(1)

from_utf8_lossy(b) == LossyFrom(b, 1)

RECURSIVE trim_end_matches_nul(_)
trim_end_matches_nul(s) ==
    IF Len(s) > 0 /\ s[Len(s)] = 0
    THEN trim_end_matches_nul(SubSeq(s, 1, Len(s) - 1))
    ELSE s

(***************************************************************************)
(* The request encoder (lib.rs 60-75).  An address is [v |-> 4 or 6,       *)
(* octets |-> its 4 or 16 octets].                                         *)
(***************************************************************************)
encode_address_short(addr) ==
    IF addr.v = 4
    THEN <<ADDRESS_IPV4>> \o addr.octets \o Zeros(11)
    ELSE <<ADDRESS_IPV6>> \o addr.octets

encode_address(addr) ==
    IF addr.v = 4
    THEN <<ADDRESS_IPV4>> \o addr.octets \o Zeros(12)
    ELSE <<ADDRESS_IPV6>> \o addr.octets

build_request(addr, e) ==
    to_ne_bytes(Digits(REQUEST_MAGIC, 4), e) \o encode_address(addr)

(***************************************************************************)
(* chrono's DateTime::<Utc>::from_timestamp(secs, 0): Some(instant) when   *)
(* secs lies within the dates chrono represents (-262143-01-01T00:00:00Z   *)
(* to +262142-12-31T23:59:59Z), else None.  An instant is its i64 seconds. *)
(***************************************************************************)
\*  8210266876799 as an i64
CHRONO_MAX_SECS == <<127, 107, 10, 154, 119, 7, 0, 0>>
\* -8334601315200 as an i64
CHRONO_MIN_SECS == <<128, 156, 12, 115, 107, 248, 255, 255>>

from_timestamp(secs) ==
    IF SignedLeq(CHRONO_MIN_SECS, secs) /\ SignedLeq(secs, CHRONO_MAX_SECS)
    THEN <<secs>>
    ELSE <<>>

\* `u32 as i64`: zero extension.  The sign-extending variant is what
\* `u32 as i32 as i64` would do.
as_i64_sign_extended(d) == d \o Fill(4, IF d[4] >= 128 THEN 255 ELSE 0)

as_i64(d) == d \o Zeros(4)

\* `u32 as u64`.
as_u64(d) == d \o Zeros(4)

\* Duration::from_secs(v as u64 * k): a Duration is its u64 seconds.
duration_u32_wrapping(d, k) == MulSmall(d, k, 4) \o Zeros(4)

duration_from_secs_times(d, k) == MulSmall(as_u64(d), k, 8)

(***************************************************************************)
(* The response decoder (lib.rs 80-285).  What query returns is            *)
(*   [kind, err, arg, rec, pos, stdout]                                    *)
(* kind "Some": Ok(Some(record)), rec = <<record>>;                        *)
(* kind "None": Ok(None);   kind "Err": Err(err(arg));                     *)
(* kind "Panic": the call panicked (err names the panic);                  *)
(* pos is the cursor offset when the decoder stopped and stdout what it    *)
(* printed.                                                                *)
(***************************************************************************)
Returned(kind, err, arg, rec, rd, out) ==
    [kind |-> kind, err |-> err, arg |-> arg, rec |-> rec, pos |-> rd.pos,
     stdout |-> out]

MissingData(field, rd) == Returned("Err", "MissingData", field, <<>>, rd, <<>>)

TimestampOutOfRange(field, rd) ==
    Returned("Err", "TimestampOutOfRange", field, <<>>, rd, <<>>)

Unreachable(rd, out) == Returned("Panic", "unreachable", "", <<>>, rd, out)

\* magic != RESPONSE_MAGIC (lib.rs 83)
magic_any(magic) == TRUE

magic_matches(magic) == magic = Digits(RESPONSE_MAGIC, 4)

\* match status (lib.rs 88-93)
match_status_nomatch_continues(status) ==
    IF status = Digits(STATUS_BADQUERY, 4) THEN "BadQuery"
    ELSE IF status = Digits(STATUS_OK, 4) THEN "Ok"
    ELSE IF status = Digits(STATUS_NOMATCH, 4) THEN "Ok"
    ELSE "unreachable"

match_status(status) ==
    IF status = Digits(STATUS_BADQUERY, 4) THEN "BadQuery"
    ELSE IF status = Digits(STATUS_OK, 4) THEN "Ok"
    ELSE IF status = Digits(STATUS_NOMATCH, 4) THEN "NoMatch"
    ELSE "unreachable"

\* match uptime { 0 => None, uptime => Some(from_secs(uptime as u64 * 60)) }
uptime_option_wrapping(v) ==
    IF IsZero(v) THEN <<>> ELSE <<duration_u32_wrapping(v, 60)>>

uptime_option(v) ==
    IF IsZero(v) THEN <<>> ELSE <<duration_from_secs_times(v, 60)>>

\* match distance { -1 => None, distance => Some(distance) }
distance_option_negative(d) == IF d < 0 THEN <<>> ELSE <<d>>

distance_option(d) == IF d = -1 THEN <<>> ELSE <<d>>

\* match bad_sw (lib.rs 169-177): the variant, or "unreachable"
match_bad_sw(b) ==
    IF b = 0 THEN <<>>
    ELSE IF b = 1 THEN <<"OsDifference">>
    ELSE IF b = 2 THEN <<"OutrightMismatch">>
    ELSE <<"unreachable">>

\* match os_match_q (lib.rs 183-188)
match_os_match_q(b) ==
    IF b = MATCH_NORMAL THEN "Normal"
    ELSE IF b = MATCH_FUZZY THEN "Fuzzy"
    ELSE IF b = MATCH_GENERIC THEN "Generic"
    ELSE IF b = MATCH_FUZZY_GENERIC THEN "FuzzyGeneric"
    ELSE "unreachable"

SlotNames == <<"os_name", "os_flavor", "http_name", "http_flavor", "link_type",
               "language">>

\* One text slot (lib.rs 190-201, and its five copies):
\*   match response.get_buffer()[0] { 0 => None, _ => Some(read_array ...) }
\* yields [kind |-> "ok" | "MissingData" | "IndexPanic", val, rd].
text_slot(rd, name) ==
    LET rest == get_buffer(rd)
    IN  IF rest.panic \/ Len(rest.val) = 0
        THEN [kind |-> "IndexPanic", val |-> <<>>, rd |-> rd]
        ELSE IF rest.val[1] = 0
        THEN [kind |-> "ok", val |-> <<>>, rd |-> rd]
        ELSE LET a == read_array(rd, STR_SIZE)
             IN  IF a.val = <<>>
                 THEN [kind |-> "MissingData", val |-> <<>>, rd |-> a.rd]
                 ELSE [kind |-> "ok",
                       val  |-> <<trim_end_matches_nul(
                                    from_utf8_lossy(SubSeq(a.val[1], 1, STR_SIZE)))>>,
                       rd   |-> a.rd]

\* The six slots in order; stops at the first one that fails.
RECURSIVE text_slots(_, _, _)
text_slots(rd, i, acc) ==
    IF i > Len(SlotNames)
    THEN [kind |-> "ok", name |-> "", vals |-> acc, rd |-> rd]
    ELSE LET s == text_slot(rd, SlotNames[i])
         IN  IF s.kind # "ok"
             THEN [kind |-> s.kind, name |-> SlotNames[i], vals |-> acc, rd |-> s.rd]
             ELSE text_slots(s.rd, i + 1, Append(acc, s.val))

\* lib.rs 168-285: bad_sw, os_match_q, the six text slots, the record.
\* n holds the fields decoded so far.
decode_tail(rd0, e, n) ==
    LET a1 == read_array(rd0, 1)
    IN  IF a1.val = <<>> THEN MissingData("bad_sw", a1.rd) ELSE
    LET bad_sw == match_bad_sw(a1.val[1][1])
        out == IF bad_sw = <<"unreachable">> THEN <<<<"bad_sw: ", a1.val[1][1]>>>>
               ELSE <<>>
    IN  IF bad_sw = <<"unreachable">> THEN Unreachable(a1.rd, out) ELSE
    LET a2 == read_array(a1.rd, 1)
    IN  IF a2.val = <<>> THEN MissingData("os_match_q", a2.rd) ELSE
    LET os_match_q == match_os_match_q(a2.val[1][1])
    IN  IF os_match_q = "unreachable" THEN Unreachable(a2.rd, <<>>) ELSE
    LET t == text_slots(a2.rd, 1, <<>>)
    IN  IF t.kind = "IndexPanic"
        THEN Returned("Panic", "index out of bounds", t.name, <<>>, t.rd, <<>>)
        ELSE IF t.kind = "MissingData" THEN MissingData(t.name, t.rd)
        ELSE Returned("Some", "", "",
                 <<[first_seen  |-> n.first_seen,
                    last_seen   |-> n.last_seen,
                    total_conn  |-> n.total_conn,
                    uptime_min  |-> n.uptime_min,
                    up_mod_days |-> n.up_mod_days,
                    last_nat    |-> n.last_nat,
                    last_chg    |-> n.last_chg,
                    distance    |-> n.distance,
                    bad_sw      |-> bad_sw,
                    os_match_q  |-> os_match_q,
                    os_name     |-> t.vals[1],
                    os_flavor   |-> t.vals[2],
                    http_name   |-> t.vals[3],
                    http_flavor |-> t.vals[4],
                    link_type   |-> t.vals[5],
                    language    |-> t.vals[6]]>>,
                 t.rd, <<>>)

\* lib.rs 95-166: the timestamps, the counters and the distance.
decode_body(rd0, e) ==
    LET a1 == read_array(rd0, 4)
    IN  IF a1.val = <<>> THEN MissingData("first_seen", a1.rd) ELSE
    LET first_seen == from_timestamp(as_i64(from_ne_bytes(a1.val[1], e)))
    IN  IF first_seen = <<>> THEN TimestampOutOfRange("first_seen", a1.rd) ELSE
    LET a2 == read_array(a1.rd, 4)
    IN  IF a2.val = <<>> THEN MissingData("last_seen", a2.rd) ELSE
    LET last_seen == from_timestamp(as_i64(from_ne_bytes(a2.val[1], e)))
    IN  IF last_seen = <<>> THEN TimestampOutOfRange("last_seen", a2.rd) ELSE
    LET a3 == read_array(a2.rd, 4)
    IN  IF a3.val = <<>> THEN MissingData("total_conn", a3.rd) ELSE
    LET total_conn == from_ne_bytes(a3.val[1], e)
        a4 == read_array(a3.rd, 4)
    IN  IF a4.val = <<>> THEN MissingData("uptime_min", a4.rd) ELSE
    LET uptime_min == uptime_option(from_ne_bytes(a4.val[1], e))
        a5 == read_array(a4.rd, 4)
    IN  IF a5.val = <<>> THEN MissingData("up_mod_days", a5.rd) ELSE
    LET up_mod_days == duration_from_secs_times(from_ne_bytes(a5.val[1], e), 86400)
        a6 == read_array(a5.rd, 4)
    IN  IF a6.val = <<>> THEN MissingData("last_nat", a6.rd) ELSE
    LET nat == from_ne_bytes(a6.val[1], e)
        last_nat == IF IsZero(nat) THEN <<>> ELSE from_timestamp(as_i64(nat))
    IN  IF ~IsZero(nat) /\ last_nat = <<>>
        THEN TimestampOutOfRange("last_seen", a6.rd) ELSE
    LET a7 == read_array(a6.rd, 4)
    IN  IF a7.val = <<>> THEN MissingData("last_chg", a7.rd) ELSE
    LET chg == from_ne_bytes(a7.val[1], e)
        last_chg == IF IsZero(chg) THEN <<>> ELSE from_timestamp(as_i64(chg))
    IN  IF ~IsZero(chg) /\ last_chg = <<>>
        THEN TimestampOutOfRange("last_chg", a7.rd) ELSE
    LET a8 == read_array(a7.rd, 2)
    IN  IF a8.val = <<>> THEN MissingData("distance", a8.rd) ELSE
    LET distance == distance_option(i16_from_ne_bytes(a8.val[1], e))
    IN  decode_tail(a8.rd, e,
            [first_seen  |-> first_seen[1],
             last_seen   |-> last_seen[1],
             total_conn  |-> total_conn,
             uptime_min  |-> uptime_min,
             up_mod_days |-> up_mod_days,
             last_nat    |-> last_nat,
             last_chg    |-> last_chg,
             distance    |-> distance])

\* lib.rs 80-93: the magic and the status, then the rest.
decode(buffer, e) ==
    LET rd0 == BufferReader_new(buffer)
        a1 == read_array(rd0, 4)
    IN  IF a1.val = <<>> THEN MissingData("magic", a1.rd) ELSE
        IF ~magic_matches(from_ne_bytes(a1.val[1], e))
        THEN Returned("Err", "InvalidMagic", "", <<>>, a1.rd, <<>>) ELSE
    LET a2 == read_array(a1.rd, 4)
    IN  IF a2.val = <<>> THEN MissingData("status", a2.rd) ELSE
    LET st == match_status(from_ne_bytes(a2.val[1], e))
    IN  IF st = "BadQuery" THEN Returned("Err", "BadQuery", "", <<>>, a2.rd, <<>>)
        ELSE IF st = "NoMatch" THEN Returned("None", "", "", <<>>, a2.rd, <<>>)
        ELSE IF st = "unreachable" THEN Unreachable(a2.rd, <<>>)
        ELSE decode_body(a2.rd, e)

(***************************************************************************)
(* UnixStream::read_exact on the unread bytes s of the socket: the first n *)
(* bytes and what stays in the socket.                                     *)
(***************************************************************************)
read_exact_leaves_last(s, n) ==
    [data |-> SubSeq(s, 1, n), rest |-> SubSeq(s, n, Len(s))]

read_exact(s, n) ==
    [data |-> SubSeq(s, 1, n), rest |-> SubSeq(s, n + 1, Len(s))]

(***************************************************************************)
(* Inputs: what the daemon may answer.  A response is laid out from its    *)
(* field values in the host's byte order (the daemon runs on the same      *)
(* host); the sets below vary every field through its sentinel, ordinary   *)
(* and extreme values, and the magic and status through wrong ones.        *)
(***************************************************************************)
U32_MAX == <<255, 255, 255, 255>>          \* 0xFFFFFFFF
U32_HIGH_BIT == <<0, 0, 0, 128>>           \* 0x80000000
T_FIRST == <<0, 241, 83, 101>>             \* 1700000000
T_LAST == <<16, 255, 83, 101>>             \* 1700003600

I16Digits(d) == Digits(IF d < 0 THEN d + 65536 ELSE d, 2)

Slot(text) == text \o Zeros(STR_SIZE - Len(text))

AbsentSlot == Zeros(STR_SIZE)

\* "Linux 5.x"
LinuxText == <<76, 105, 110, 117, 120, 32, 53, 46, 120>>

\* A two-letter text that names its slot: "A1" .. "A6".
SlotText(i) == <<65, 48 + i>>

BaseFields ==
    [magic       |-> Digits(RESPONSE_MAGIC, 4),
     status      |-> Digits(STATUS_OK, 4),
     first_seen  |-> T_FIRST,
     last_seen   |-> T_LAST,
     total_conn  |-> Digits(5, 4),
     uptime_min  |-> Zeros(4),
     up_mod_days |-> Digits(49, 4),
     last_nat    |-> Zeros(4),
     last_chg    |-> Zeros(4),
     distance    |-> -1,
     bad_sw      |-> 0,
     os_match_q  |-> MATCH_NORMAL,
     slots       |-> <<Slot(LinuxText), AbsentSlot, AbsentSlot, AbsentSlot,
                       AbsentSlot, AbsentSlot>>]

TimeBodies ==
    {[BaseFields EXCEPT !.first_seen = a, !.last_seen = b, !.last_nat = c,
                        !.last_chg = d] :
        a \in {T_FIRST, U32_MAX}, b \in {T_LAST, U32_HIGH_BIT},
        c \in {Zeros(4), U32_HIGH_BIT, U32_MAX}, d \in {Zeros(4), U32_MAX}}

NumberBodies ==
    {[BaseFields EXCEPT !.uptime_min = u, !.up_mod_days = m, !.distance = d] :
        u \in {Zeros(4), Digits(120, 4), U32_MAX},
        m \in {Zeros(4), Digits(49, 4), U32_MAX},
        d \in {-1, 3, 0, -2, -32768}}

EnumBodies ==
    {[BaseFields EXCEPT !.bad_sw = b, !.os_match_q = q] :
        b \in {0, 1, 2, 3, 255}, q \in {0, 1, 2, 3, 4}}

\* Every combination of present and absent slots.
PresenceBodies ==
    {[BaseFields EXCEPT !.slots =
        [i \in 1..6 |-> IF i \in P THEN Slot(SlotText(i)) ELSE AbsentSlot]] :
        P \in SUBSET (1..6)}

\* Slots with unusual content: no terminator, ill-formed UTF-8, a NUL inside
\* the text, a leading NUL before text.
OddSlots ==
    {Fill(STR_SIZE, 66),
     Slot(<<195, 169, 255, 76>>),
     Slot(<<76, 0, 77>>),
     Slot(<<0, 76, 77>>)}

OddBodies ==
    {[BaseFields EXCEPT !.slots[1] = a, !.slots[2] = b] :
        a \in OddSlots, b \in {AbsentSlot, Slot(SlotText(2))}}

Bodies == TimeBodies \cup NumberBodies \cup EnumBodies \cup PresenceBodies
          \cup OddBodies

Magics == {Digits(RESPONSE_MAGIC, 4), Digits(REQUEST_MAGIC, 4),
           Reverse(Digits(RESPONSE_MAGIC, 4))}

Statuses == {Digits(STATUS_BADQUERY, 4), Digits(STATUS_OK, 4),
             Digits(STATUS_NOMATCH, 4), Digits(48, 4)}

ResponseFields ==
    {[b EXCEPT !.magic = m, !.status = s] : m \in Magics, s \in Statuses, b \in Bodies}

\* The 232 bytes of a response with fields f on a host of byte order e.
Wire(f, e) ==
    to_ne_bytes(f.magic, e) \o to_ne_bytes(f.status, e)
    \o to_ne_bytes(f.first_seen, e) \o to_ne_bytes(f.last_seen, e)
    \o to_ne_bytes(f.total_conn, e) \o to_ne_bytes(f.uptime_min, e)
    \o to_ne_bytes(f.up_mod_days, e) \o to_ne_bytes(f.last_nat, e)
    \o to_ne_bytes(f.last_chg, e) \o to_ne_bytes(I16Digits(f.distance), e)
    \o <<f.bad_sw, f.os_match_q>>
    \o f.slots[1] \o f.slots[2] \o f.slots[3] \o f.slots[4] \o f.slots[5]
    \o f.slots[6]

\* The addresses queried on the connection.
Addresses ==
    {[v |-> 4, octets |-> <<192, 0, 2, 1>>],
     [v |-> 6, octets |-> <<32, 1, 13, 184, 0, 0, 0, 0, 0, 0, 0, 0, 0, 0, 0, 1>>]}

\* The addresses given to the encoder alone.
EncoderAddresses ==
    {[v |-> 4, octets |-> o] : o \in [1..4 -> {0, 2, 192, 255}]}
    \cup {[v |-> 6, octets |-> [i \in 1..16 |-> (i * m + c) % 256]] :
            m \in {0, 1, 17}, c \in {0, 32, 255}}

\* The buffers given to a free-standing BufferReader.
CursorBuffers == UNION {[1..n -> {1, 2}] : n \in 0..MaxBufLen}

\* The lengths a response is cut to: around every field boundary.
TruncatedLengths ==
    {0, 3, 4, 7, 8, 11, 12, 15, 16, 19, 20, 23, 24, 27, 28, 31, 32, 35, 36, 37,
     38, 39, 40, 41, 71, 72, 73, 103, 104, 136, 168, 200, 201, 231}

(***************************************************************************)
(* The state after P0f::new: a connected socket, nothing exchanged.        *)
(***************************************************************************)
NoResult ==
    [kind |-> "NoCall", err |-> "", arg |-> "", rec |-> <<>>, pos |-> 0,
     stdout |-> <<>>]

\* Err(Error::Io(_)) from write_all or read_exact.
IoError(what) ==
    [kind |-> "Err", err |-> "Io", arg |-> what, rec |-> <<>>, pos |-> 0,
     stdout |-> <<>>]

NoAddress == [v |-> 0, octets |-> <<>>]

NoCallYet == [op |-> "new", n |-> 0, pos0 |-> 0, val |-> <<>>, panic |-> FALSE]

Init ==
    /\ endian \in {"le", "be"}
    /\ pc = "idle"
    /\ calls = 0
    /\ sent = <<>>
    /\ sock = <<>>
    /\ closed = FALSE
    /\ request = <<>>
    /\ response = <<>>
    /\ result = NoResult
    /\ io = <<>>
    /\ replies = 0
    /\ lastReply = <<>>
    /\ address = NoAddress
    /\ reader = BufferReader_new(<<>>)
    /\ ret = NoCallYet

(***************************************************************************)
(* P0f::query, first half (lib.rs 59-77): build the request and write_all. *)
(* The write fails (EPIPE) once the daemon has closed the connection, and  *)
(* the `?` returns the Io error without reading.  Otherwise the call       *)
(* blocks in read_exact.                                                   *)
(***************************************************************************)
QueryWrite(a) ==
    /\ pc = "idle"
    /\ calls < MaxCalls
    /\ calls' = calls + 1
    /\ response' = <<>>
    /\ lastReply' = <<>>
    /\ LET req == build_request(a, endian)
       IN  IF closed
           THEN /\ io' = Append(io, [op |-> "write", len |-> Len(req), ok |-> FALSE])
                /\ result' = IoError("write")
                /\ pc' = "idle"
                /\ request' = <<>>
                /\ address' = NoAddress
                /\ sent' = sent
           ELSE /\ io' = Append(io, [op |-> "write", len |-> Len(req), ok |-> TRUE])
                /\ result' = NoResult
                /\ pc' = "reading"
                /\ request' = req
                /\ address' = a
                /\ sent' = sent \o req
    /\ UNCHANGED <<endian, sock, closed, replies, reader, ret>>

(***************************************************************************)
(* P0f::query, second half (lib.rs 78-285): read_exact of RESPONSE_SIZE    *)
(* bytes, then the decoder; the call returns (or panics).                  *)
(***************************************************************************)
QueryRead ==
    /\ pc = "reading"
    /\ Len(sock) >= RESPONSE_SIZE
    /\ LET r == read_exact(sock, RESPONSE_SIZE)
       IN  /\ response' = r.data
           /\ sock' = r.rest
           /\ result' = decode(r.data, endian)
    /\ io' = Append(io, [op |-> "read", len |-> RESPONSE_SIZE, ok |-> TRUE])
    /\ pc' = "idle"
    /\ request' = <<>>
    /\ address' = NoAddress
    /\ UNCHANGED <<endian, calls, sent, closed, replies, lastReply, reader, ret>>

\* read_exact meets the end of the stream before RESPONSE_SIZE bytes:
\* UnexpectedEof, returned by the `?` (lib.rs 79).
QueryReadEof ==
    /\ pc = "reading"
    /\ closed
    /\ Len(sock) < RESPONSE_SIZE
    /\ sock' = <<>>
    /\ result' = IoError("read")
    /\ io' = Append(io, [op |-> "read", len |-> RESPONSE_SIZE, ok |-> FALSE])
    /\ pc' = "idle"
    /\ request' = <<>>
    /\ address' = NoAddress
    /\ UNCHANGED <<endian, calls, sent, closed, response, replies, lastReply,
                   reader, ret>>

(***************************************************************************)
(* The daemon: it answers each whole request with one response block, and  *)
(* it may close the connection at any time, possibly in the middle of      *)
(* writing a response.  The stream is a blocking UnixStream with no        *)
(* timeout (P0f keeps it private), so the I/O errors modelled are those of *)
(* a closed peer: EPIPE for write_all, UnexpectedEof for read_exact.       *)
(***************************************************************************)
DaemonReply(f) ==
    /\ ~closed
    /\ Len(sent) >= REQUEST_SIZE
    /\ sent' = SubSeq(sent, REQUEST_SIZE + 1, Len(sent))
    /\ sock' = sock \o Wire(f, endian)
    /\ lastReply' = Wire(f, endian)
    /\ replies' = replies + 1
    /\ UNCHANGED <<endian, pc, calls, closed, request, response, result, io,
                   address, reader, ret>>

DaemonClose(partial) ==
    /\ ~closed
    /\ closed' = TRUE
    /\ sent' = <<>>
    /\ sock' = IF partial /\ Len(sent) >= REQUEST_SIZE
               THEN sock \o SubSeq(Wire(BaseFields, endian), 1, 100)
               ELSE sock
    /\ UNCHANGED <<endian, pc, calls, request, response, result, io, replies,
                   lastReply, address, reader, ret>>

Next ==
    \/ \E a \in Addresses : QueryWrite(a)
    \/ QueryRead
    \/ QueryReadEof
    \/ \E f \in ResponseFields : DaemonReply(f)
    \/ \E partial \in BOOLEAN : DaemonClose(partial)

Spec == Init /\ [][Next]_vars

(***************************************************************************)
(* The request encoder alone, on every address of EncoderAddresses.        *)
(***************************************************************************)
Encode(a) ==
    /\ address' = a
    /\ request' = build_request(a, endian)
    /\ UNCHANGED <<endian, connVars, response, result, reader, ret>>

NextEncode == \E a \in EncoderAddresses : Encode(a)

SpecEncode == Init /\ [][NextEncode]_vars

(***************************************************************************)
(* A BufferReader alone, over every buffer of CursorBuffers, under any     *)
(* sequence of read_array::<N> and get_buffer calls.                       *)
(***************************************************************************)
InitCursor ==
    /\ endian \in {"le"}
    /\ pc = "idle"
    /\ calls = 0
    /\ sent = <<>>
    /\ sock = <<>>
    /\ closed = FALSE
    /\ request = <<>>
    /\ response = <<>>
    /\ result = NoResult
    /\ io = <<>>
    /\ replies = 0
    /\ lastReply = <<>>
    /\ address = NoAddress
    /\ \E b \in CursorBuffers : reader = BufferReader_new(b)
    /\ ret = NoCallYet

ReadArray(N) ==
    /\ LET a == read_array(reader, N)
       IN  /\ reader' = a.rd
           /\ ret' = [op |-> "read_array", n |-> N, pos0 |-> reader.pos,
                      val |-> a.val, panic |-> FALSE]
    /\ UNCHANGED <<endian, connVars, request, response, result, address>>

GetBuffer ==
    /\ LET g == get_buffer(reader)
       IN  ret' = [op |-> "get_buffer", n |-> 0, pos0 |-> reader.pos,
                   val |-> <<g.val>>, panic |-> g.panic]
    /\ UNCHANGED <<endian, connVars, request, response, result, address, reader>>

NextCursor ==
    \/ \E N \in {0, 1, 2, 4, STR_SIZE} : ReadArray(N)
    \/ GetBuffer

SpecCursor == InitCursor /\ [][NextCursor]_vars

(***************************************************************************)
(* The decoder alone, on responses cut short: a BufferReader over the      *)
(* first L bytes of a status-ok response.                                  *)
(***************************************************************************)
TruncatedBodies == PresenceBodies \cup OddBodies

DecodeTruncated(f, L) ==
    /\ result = NoResult
    /\ response' = SubSeq(Wire(f, endian), 1, L)
    /\ result' = decode(SubSeq(Wire(f, endian), 1, L), endian)
    /\ UNCHANGED <<endian, connVars, request, address, reader, ret>>

NextTruncated ==
    \E f \in TruncatedBodies, L \in TruncatedLengths : DecodeTruncated(f, L)

SpecTruncated == Init /\ [][NextTruncated]_vars

(***************************************************************************)
(* Properties.  The wire values are taken from the response bytes at the   *)
(* fixed offsets of the layout, not from the cursor.                       *)
(***************************************************************************)
\* The value of the w-byte field at byte offset off of the response read.
FieldAt(off, w) ==
    LET b == [i \in 1..w |-> response[off + i]]
    IN  IF endian = "le" THEN b ELSE [i \in 1..w |-> b[w + 1 - i]]

\* The last call read a whole response and ran the decoder on it.
Decoded == Len(response) = 232 /\ result.kind # "NoCall"

ValidMagic == FieldAt(0, 4) = <<2, 70, 48, 80>>

StatusIs(code) == FieldAt(4, 4) = <<code, 0, 0, 0>>

\* The text a present slot holds: bytes [40+32*i, 72+32*i) of the response,
\* for slot i = 0..5.
SlotBytes(i) == [k \in 1..32 |-> response[40 + 32 * i + k]]

SlotValue(i) ==
    IF response[40 + 32 * i + 1] = 0 THEN <<>>
    ELSE <<trim_end_matches_nul(from_utf8_lossy(SlotBytes(i)))>>

RecordSlots(r) ==
    <<r.os_name, r.os_flavor, r.http_name, r.http_flavor, r.link_type, r.language>>

\* C1: in a decoded record every text slot i is decoded from response bytes
\* [40+32*i, 72+32*i), whether or not earlier slots are absent, and the cursor
\* ends at offset 232.
C1_SlotsAdvance ==
    (Decoded /\ result.kind = "Some") =>
        /\ result.pos = 232
        /\ \A i \in 0..5 : RecordSlots(result.rec[1])[i + 1] = SlotValue(i)

\* C2: with valid magic, an unknown status code, mismatch byte or match-quality
\* byte makes query return an error value: no panic, no record, no None.
C2_BadEnumIsError ==
    (/\ Decoded
     /\ ValidMagic
     /\ \/ ~(StatusIs(0) \/ StatusIs(16) \/ StatusIs(32))
        \/ StatusIs(16) /\ (response[39] \notin {0, 1, 2}
                            \/ response[40] \notin {0, 1, 2, 3}))
    => (result.kind = "Err" /\ result.err # "Io")

\* The first field, in wire order, that a buffer of length L does not hold
\* whole.
FieldEnds ==
    <<4, 8, 12, 16, 20, 24, 28, 32, 36, 38, 39, 40, 72, 104, 136, 168, 200, 232>>

FieldNames ==
    <<"magic", "status", "first_seen", "last_seen", "total_conn", "uptime_min",
      "up_mod_days", "last_nat", "last_chg", "distance", "bad_sw", "os_match_q",
      "os_name", "os_flavor", "http_name", "http_flavor", "link_type", "language">>

FirstMissingField(L) ==
    FieldNames[CHOOSE k \in 1..18 :
                  /\ FieldEnds[k] > L
                  /\ \A j \in 1..(k - 1) : FieldEnds[j] <= L]

C4_RequestLayout ==
    request # <<>> =>
        /\ Len(request) = 21
        /\ <<request[1], request[2], request[3], request[4]>>
             = (IF endian = "le" THEN <<1, 70, 48, 80>> ELSE <<80, 48, 70, 1>>)
        /\ address.v \in {4, 6}
        /\ address.v = 4 =>
             /\ request[5] = 4
             /\ \A i \in 1..4 : request[5 + i] = address.octets[i]
             /\ \A i \in 10..21 : request[i] = 0
        /\ address.v = 6 =>
             /\ request[5] = 6
             /\ \A i \in 1..16 : request[5 + i] = address.octets[i]

C4_Witness ==
    /\ address = [v |-> 4, octets |-> <<192, 0, 2, 255>>]
    /\ Len(request) = 21
    /\ request[9] = 255

\* C5: the I/O on the connection is write(21) then read(232), alternating,
\* one of each per call; a failed write is followed by no read and returns
\* an Io error; every call that read its response consumed exactly the
\* block written for it, the k-th block for the k-th call, whatever the
\* decoder made of it.
C5_OneWriteOneRead ==
    /\ \A i \in 1..Len(io) :
          /\ io[i].op \in {"write", "read"}
          /\ io[i].op = "write" =>
                /\ io[i].len = 21
                /\ i > 1 => ~(io[i - 1].op = "write" /\ io[i - 1].ok)
          /\ io[i].op = "read" =>
                /\ io[i].len = 232
                /\ i > 1
                /\ io[i - 1].op = "write"
                /\ io[i - 1].ok
    /\ Cardinality({i \in 1..Len(io) : io[i].op = "write"}) = calls
    /\ pc = "reading" <=>
          (Len(io) > 0 /\ io[Len(io)].op = "write" /\ io[Len(io)].ok)
    /\ (pc = "idle" /\ Len(io) > 0 /\ ~io[Len(io)].ok) =>
          (result.kind = "Err" /\ result.err = "Io")
    /\ (pc = "idle" /\ Len(io) > 0 /\ io[Len(io)].op = "read" /\ io[Len(io)].ok) =>
          /\ result.kind \in {"Some", "None", "Err", "Panic"}
          /\ result.err # "Io"
          /\ Len(response) = 232
          /\ response = lastReply
          /\ replies = calls
          /\ sock = <<>>

C5_Witness ==
    /\ calls = 2
    /\ Len(io) = 4
    /\ io[4].op = "read" /\ io[4].ok
    /\ result.kind = "Err" /\ result.err = "InvalidMagic"
    /\ response = lastReply

\* C6: a 232-byte response whose first 4 bytes are not the response magic
\* fails with InvalidMagic, whatever the status and the other bytes are.
C6_InvalidMagicFirst ==
    (Decoded /\ ~ValidMagic) =>
        /\ result.kind = "Err"
        /\ result.err = "InvalidMagic"
        /\ result.rec = <<>>

C6_Witness ==
    /\ Decoded
    /\ FieldAt(0, 4) = <<1, 70, 48, 80>>
    /\ StatusIs(0)
    /\ result.err = "InvalidMagic"

\* C7: a 232-byte response with valid magic and status no-match yields
\* Ok(None) whatever the other 224 bytes are, and the decoder stops at
\* offset 8, after the status.
C7_NoMatchIsNone ==
    (Decoded /\ ValidMagic /\ StatusIs(32)) =>
        /\ result.kind = "None"
        /\ result.rec = <<>>
        /\ result.pos = 8

C7_Witness ==
    /\ Decoded /\ ValidMagic /\ StatusIs(32)
    /\ response[39] = 255
    /\ response[40] = 4
    /\ result.kind = "None"

\* C8 as stated: a first_seen of 0xFFFFFFFF is rejected with
\* TimestampOutOfRange("first_seen").
C8_LargeTimestampRejected ==
    (Decoded /\ ValidMagic /\ StatusIs(16) /\ FieldAt(8, 4) = <<255, 255, 255, 255>>)
    => /\ result.kind = "Err"
       /\ result.err = "TimestampOutOfRange"
       /\ result.arg = "first_seen"

\* C8 amended: no 32-bit wire value is rejected: decoding never fails with
\* TimestampOutOfRange, and in a record first_seen, last_seen and a non-zero
\* last_nat and last_chg are exactly the wire value in seconds (zero-extended
\* to 64 bits, never wrapped negative), 0xFFFFFFFF included.
C8_AllTimestampsAccepted ==
    Decoded =>
        /\ result.err # "TimestampOutOfRange"
        /\ result.kind = "Some" =>
            LET r == result.rec[1]
                opt(off) == IF FieldAt(off, 4) = <<0, 0, 0, 0>> THEN <<>>
                            ELSE <<FieldAt(off, 4) \o <<0, 0, 0, 0>>>>
            IN  /\ r.first_seen = FieldAt(8, 4) \o <<0, 0, 0, 0>>
                /\ r.last_seen = FieldAt(12, 4) \o <<0, 0, 0, 0>>
                /\ r.last_nat = opt(28)
                /\ r.last_chg = opt(32)

C8_Witness ==
    /\ Decoded
    /\ result.kind = "Some"
    /\ FieldAt(8, 4) = <<255, 255, 255, 255>>
    /\ FieldAt(28, 4) = <<255, 255, 255, 255>>
    /\ result.rec[1].first_seen = <<255, 255, 255, 255, 0, 0, 0, 0>>
    /\ result.rec[1].last_nat = <<<<255, 255, 255, 255, 0, 0, 0, 0>>>>

\* The signed value of the 16-bit field at offset off.
SignedAt(off) ==
    LET d == FieldAt(off, 2)
        u == d[1] + 256 * d[2]
    IN  IF u >= 32768 THEN u - 65536 ELSE u

\* The 64-bit product of a 32-bit value and k < 2^22, digit by digit.
Times(d, k) == MulSmall(d \o <<0, 0, 0, 0>>, k, 8)

\* C9: in a record, uptime_min is None iff the wire value is 0 and else
\* value*60 seconds (120 gives 7200 s; 0xFFFFFFFF gives 257698037700 s, no
\* overflow); distance is None iff the signed wire value is -1 and else that
\* value, negative ones included; up_mod_days is always value*86400 seconds.
C9_OptionalNumbers ==
    (Decoded /\ result.kind = "Some") =>
        LET r == result.rec[1]
            up == FieldAt(20, 4)
            md == FieldAt(24, 4)
        IN  /\ (r.uptime_min = <<>>) <=> (up = <<0, 0, 0, 0>>)
            /\ up # <<0, 0, 0, 0>> => r.uptime_min = <<Times(up, 60)>>
            /\ up = <<120, 0, 0, 0>> =>
                 r.uptime_min = <<<<32, 28, 0, 0, 0, 0, 0, 0>>>>
            /\ up = <<255, 255, 255, 255>> =>
                 r.uptime_min = <<<<196, 255, 255, 255, 59, 0, 0, 0>>>>
            /\ (r.distance = <<>>) <=> (SignedAt(36) = -1)
            /\ SignedAt(36) # -1 => r.distance = <<SignedAt(36)>>
            /\ r.up_mod_days = Times(md, 86400)
            /\ md = <<0, 0, 0, 0>> => r.up_mod_days = <<0, 0, 0, 0, 0, 0, 0, 0>>
            /\ md = <<49, 0, 0, 0>> => r.up_mod_days = <<128, 153, 64, 0, 0, 0, 0, 0>>
            /\ md = <<255, 255, 255, 255>> =>
                 r.up_mod_days = <<128, 174, 254, 255, 127, 81, 1, 0>>

C9_Witness ==
    /\ Decoded
    /\ result.kind = "Some"
    /\ FieldAt(20, 4) = <<255, 255, 255, 255>>
    /\ result.rec[1].uptime_min = <<<<196, 255, 255, 255, 59, 0, 0, 0>>>>
    /\ FieldAt(24, 4) = <<0, 0, 0, 0>>
    /\ result.rec[1].distance = <<-2>>

\* C10: the cursor stays within the buffer; read_array::<N> succeeds exactly
\* when pos + N <= len, returns buffer[pos..pos+N] and advances by N, and
\* otherwise returns None and leaves pos; get_buffer returns buffer[pos..]
\* and leaves pos.
C10_CursorContract ==
    /\ reader.pos >= 0
    /\ reader.pos <= Len(reader.buffer)
    /\ ret.op = "read_array" =>
          IF ret.pos0 + ret.n <= Len(reader.buffer)
          THEN /\ Len(ret.val) = 1
               /\ Len(ret.val[1]) = ret.n
               /\ \A i \in 1..ret.n : ret.val[1][i] = reader.buffer[ret.pos0 + i]
               /\ reader.pos = ret.pos0 + ret.n
          ELSE /\ ret.val = <<>>
               /\ reader.pos = ret.pos0
    /\ ret.op = "get_buffer" =>
          /\ ~ret.panic
          /\ reader.pos = ret.pos0
          /\ Len(ret.val[1]) = Len(reader.buffer) - ret.pos0
          /\ \A i \in 1..Len(ret.val[1]) : ret.val[1][i] = reader.buffer[ret.pos0 + i]

C10_Witness ==
    /\ ret.op = "read_array"
    /\ ret.n = 4
    /\ ret.pos0 = 1
    /\ ret.val = <<<<2, 1, 2, 1>>>>
    /\ reader.pos = Len(reader.buffer)

====
